---- MODULE Spec2Model ----
(***************************************************************************)
(* Model of radicast's capture-and-retry engine (radiko.go).               *)
(*                                                                         *)
(*   Spec      one recording session: Radiko.Run / Radiko.run supervising  *)
(*             record workers (auth, program lookup, download, stat), the  *)
(*             backoff timer, the shared context and the external          *)
(*             processes.                                                  *)
(*   SpecAuth  the stage-2 response handler of Radiko.auth applied to      *)
(*             every response body of a bounded alphabet.                  *)
(*   SpecNow   Radiko.nowProgram applied to bounded schedules and clocks.  *)
(*   SpecSave  RadikoResult.Save into the program directory, with the      *)
(*             podcast server reading that directory concurrently.         *)
(***************************************************************************)
EXTENDS Integers, Sequences, FiniteSets, TLC

\* retry ceiling of Radiko.run: "if retry < 5"
MaxRetry == 5

\* bound of the model: number of record workers a session may ever start
MaxWorkers == 7

\* bound of the model: length of a stage-2 response body
MaxBody == 4

\* bound of the model: number of programs in one station's list
MaxProgs == 2

Workers == 0 .. (MaxWorkers - 1)

VARIABLES
    spc,          \* position of Radiko.Run/run: "init","loop","drain","returned","done"
    retry,        \* run's retry counter
    c,            \* number of tokens in the retry channel c (capacity 1)
    timer,        \* pending time.AfterFunc timers that will send on c
    results,      \* run's results slice (shared with the record closure)
    ctxCancelled, \* ctx.Done() is closed
    wk,           \* record workers, by start order
    started,      \* number of workers started so far
    files,        \* output files existing in TempDir
    crashed,      \* the process died of a panic
    runRet,       \* the slice run returned
    runExit,      \* which return of run was taken
    Result,       \* r.Result (<<>> is nil)
    runErr,       \* what Run returned
    merges,       \* number of ConcatOutput invocations
    filesAtCancel,\* the files that existed when the context was cancelled
    cancelInFlight,\* a worker was in flight when the context was cancelled
    abody,        \* SpecAuth: the stage-2 response body
    ares,         \* SpecAuth: the handler's outcome
    nsched,       \* SpecNow: the schedule todayPrograms returned
    nclock,       \* SpecNow: what time.Now() returns at each loop iteration
    nres,         \* SpecNow: nowProgram's outcome
    svpc,         \* SpecSave: position of RadikoResult.Save
    pdir,         \* SpecSave: the program directory and its two files
    srcFile,      \* SpecSave: the capture's output file r.Mp3Path exists
    cpc,          \* SpecSave: position of the server's itemByDir
    cobs,         \* SpecSave: what itemByDir found
    hpc,          \* SpecSave: position of the server's /podcast/{program}.m4a handler
    hobs          \* SpecSave: what that handler found

sessVars == <<spc, retry, c, timer, results, ctxCancelled, wk, started, files,
              crashed, runRet, runExit, Result, runErr, merges, filesAtCancel,
              cancelInFlight>>
authVars == <<abody, ares>>
nowVars == <<nsched, nclock, nres>>
saveVars == <<svpc, pdir, srcFile, cpc, cobs, hpc, hobs>>
vars == <<sessVars, authVars, nowVars, saveVars>>

(***************************************************************************)
(* Radiko.auth, stage 2: the handler of the auth2_fms response.            *)
(* A body is a sequence of characters.                                     *)
(***************************************************************************)
Chars == {",", "a", "\n"}

Bodies == UNION {[1 .. n -> Chars] : n \in 0 .. MaxBody}

\* the positions of the commas of a line
CommaPositions(line) == {i \in 1 .. Len(line) : line[i] = ","}

Max(S) == CHOOSE x \in S : \A y \in S : y <= x

\* the lines of a body: "." of the pattern does not match a line feed
RECURSIVE SplitLines(_)
SplitLines(s) ==
    IF \A i \in 1 .. Len(s) : s[i] # "\n" THEN <<s>>
    ELSE LET k == CHOOSE i \in 1 .. Len(s) :
                     s[i] = "\n" /\ \A j \in 1 .. (i - 1) : s[j] # "\n"
         IN  <<SubSeq(s, 1, k - 1)>> \o SplitLines(SubSeq(s, k + 1, Len(s)))

\* the match of "(.*),(.*),(.*)" in a line that holds two commas or more: each
\* ".*" is greedy, so the last two commas of the line are the separators.
\* The match is <<whole, group 1, group 2, group 3>>.
LineMatch(line) ==
    LET last == Max(CommaPositions(line))
        prev == Max(CommaPositions(line) \ {last})
    IN  <<line,
          SubSeq(line, 1, prev - 1),
          SubSeq(line, prev + 1, last - 1),
          SubSeq(line, last + 1, Len(line))>>

\* regexp.MustCompile("(.*),(.*),(.*)").FindAllStringSubmatch(body, -1):
\* one match for each line that holds two commas or more, in order
RECURSIVE MatchLines(_)
MatchLines(lines) ==
    IF lines = <<>> THEN <<>>
    ELSE (IF Cardinality(CommaPositions(Head(lines))) >= 2
          THEN <<LineMatch(Head(lines))>> ELSE <<>>)
         \o MatchLines(Tail(lines))

FindAllStringSubmatch(body) == MatchLines(SplitLines(body))

\* the guard of "failed to auth":  len(matches) == 1 && len(matches[0]) != 4
AuthGuard(matches) ==
    Len(matches) = 1 /\ Len(matches[1]) # 4

\* the handler: "err" is errors.New("failed to auth"); "panic" is the index
\* out of range of matches[0] when nothing matched; "ok" sets area
Auth2Handler(body) ==
    LET matches == FindAllStringSubmatch(body)
    IN  IF AuthGuard(matches) THEN [kind |-> "err", area |-> <<>>]
        ELSE IF Len(matches) = 0 THEN [kind |-> "panic", area |-> <<>>]
        ELSE [kind |-> "ok", area |-> matches[1][2]]

AuthIdle == [kind |-> "idle", area |-> <<>>]


(***************************************************************************)
(* Radiko.nowProgram: the scan of the day's schedule.                      *)
(* A timestamp (the ft and to attributes) is the Unix second it parses to, *)
(* or Bad when time.ParseInLocation rejects it.                            *)
(***************************************************************************)
Bad == -1

\* r.Station, and the id of another station of the region
StationId == "S"
OtherId == "T"

ProgSet == {[ft |-> 0, to |-> 2], [ft |-> 1, to |-> 3],
            [ft |-> Bad, to |-> 2], [ft |-> 0, to |-> Bad]}

NoProg == [ft |-> Bad, to |-> Bad]

ProgLists == UNION {[1 .. n -> ProgSet] : n \in 0 .. MaxProgs}

\* the station ids of the schedules examined, in document order
IdLayouts == {<<>>, <<StationId>>, <<OtherId>>, <<OtherId, StationId>>,
              <<StationId, OtherId>>, <<StationId, StationId>>}

Schedules ==
    UNION {{sc \in [1 .. Len(ids) -> [id : {StationId, OtherId}, progs : ProgLists]] :
              \A i \in 1 .. Len(ids) :
                  /\ sc[i].id = ids[i]
                  /\ ids[i] = OtherId => sc[i].progs = <<[ft |-> 0, to |-> 2]>>}
           : ids \in IdLayouts}

NowTimes == 0 .. 3

\* a clock: time.Now().Unix() is now0 up to read tickAt - 1 and now0 + 1 from
\* read tickAt on; tickAt = 0 is a clock that does not advance during the scan
Clocks == [now0 : NowTimes, tickAt : {0} \cup (2 .. (2 * MaxProgs))]

ReadClock(clk, k) ==
    IF clk.tickAt # 0 /\ k >= clk.tickAt THEN clk.now0 + 1 ELSE clk.now0

\* FtTime / ToTime: time.ParseInLocation succeeds
ParseOk(ts) == ts # Bad

\* ft.Unix() <= now.Unix() && now.Unix() < to.Unix()
InProgram_ToInclusive(prog, now) == prog.ft <= now /\ now <= prog.to

InProgram(prog, now) == prog.ft <= now /\ now < prog.to

\* the inner loop over one station's programs; k clock reads were made before
RECURSIVE ScanProgs(_, _, _, _)
ScanProgs(progs, i, k, clk) ==
    IF i > Len(progs) THEN [kind |-> "next", prog |-> NoProg, reads |-> k]
    ELSE IF ~ParseOk(progs[i].ft) \/ ~ParseOk(progs[i].to)
         THEN [kind |-> "parseerr", prog |-> NoProg, reads |-> k]
    ELSE IF InProgram(progs[i], ReadClock(clk, k + 1))
         THEN [kind |-> "found", prog |-> progs[i], reads |-> k + 1]
    ELSE ScanProgs(progs, i + 1, k + 1, clk)

\* the outer loop over the stations of the schedule
RECURSIVE ScanStations(_, _, _, _, _)
ScanStations(sched, station, j, k, clk) ==
    IF j > Len(sched) THEN [kind |-> "notfound", prog |-> NoProg, reads |-> k]
    ELSE IF sched[j].id # station THEN ScanStations(sched, station, j + 1, k, clk)
    ELSE LET r == ScanProgs(sched[j].progs, 1, k, clk)
         IN  IF r.kind = "next"
             THEN ScanStations(sched, station, j + 1, r.reads, clk)
             ELSE r

nowProgram(sched, station, clk) == ScanStations(sched, station, 1, 0, clk)

NowIdle == [kind |-> "idle", prog |-> NoProg, reads |-> 0]


(***************************************************************************)
(* The session: Radiko.Run, Radiko.run and the record workers.             *)
(***************************************************************************)

\* filepath.Join(r.TempDir, fmt.Sprintf("radiko_%d.m4a", retry))
OutputPath(n) == [file |-> "radiko", n |-> n]

\* filepath.Join(dir, "radiko_concat.m4a")
ConcatPath == [file |-> "radiko_concat", n |-> 0]

\* the RadikoResult record builds once the output file was found
MkResult(out, station, prog) ==
    [path |-> out, station |-> station, prog |-> prog]

\* the schedules and clocks a session's lookups meet, and the stage-2 bodies
SessSchedules == {<<[id |-> StationId, progs |-> <<[ft |-> 0, to |-> 2]>>]>>,
                  <<[id |-> StationId, progs |-> <<[ft |-> Bad, to |-> 2]>>]>>}

SessClocks == [now0 : {1, 3}, tickAt : {0}]

SessBodies == {<<>>, <<"a", ",", "a", ",", "a">>}

\* the temp files of a call of auth: ioutil.TempFile("", "swf") and
\* ioutil.TempFile("", ".png")
TmpSwf == "swf"
TmpPng == "png"

\* auth's deferred functions at its return: Close and os.Remove of each temp
\* file the call created; what is left of them
AuthCleanup(tmp) == tmp \ {TmpSwf, TmpPng}

\* a worker that was not started
IdleWorker ==
    [pc |-> "idle", http |-> "none", out |-> OutputPath(0), tok |-> 0,
     area |-> <<>>, prog |-> NoProg, g |-> "none", rtmp |-> "none",
     conv |-> "none", derr |-> "none", ret |-> <<>>, err |-> "none",
     afterCancel |-> FALSE, tmp |-> {}, lkArea |-> <<>>, dlTok |-> 0]

HttpStages == {"swf", "auth1", "auth2", "today"}

\* the worker goroutine exists and has not ended
InFlight(w) == wk[w].pc \notin {"idle", "done"}

Set(w, r) == wk' = [wk EXCEPT ![w] = r]

\* record has returned (ret, err): its locals are gone, and a converter that is
\* still running is followed no further (nothing reads its state or its file
\* again). What is left of the worker is the closure's ret and err.
Returned(r, pc, ret, err) ==
    [IdleWorker EXCEPT !.pc = pc, !.out = r.out, !.ret = ret, !.err = err,
                       !.afterCancel = r.afterCancel, !.tmp = AuthCleanup(r.tmp)]

\* record returns (nil, err) before any download; the closure returns err
FailWith(w, r) == Set(w, Returned(r, "send", <<>>, "err"))

Fail(w) == FailWith(w, wk[w])

\* the supervisor received the worker's error: the goroutine has ended, and of
\* the error (which run only logs) what is left is whether it was nil
Received(r) ==
    [r EXCEPT !.pc = "done", !.err = IF @ = "nil" THEN "nil" ELSE "err"]

SessInit ==
    /\ spc = "init"
    /\ retry = 0
    /\ c = 0
    /\ timer = 0
    /\ results = <<>>
    /\ ctxCancelled = FALSE
    /\ wk = [w \in Workers |-> IdleWorker]
    /\ started = 0
    /\ files = {}
    /\ crashed = FALSE
    /\ runRet = <<>>
    /\ runExit = "none"
    /\ Result = <<>>
    /\ runErr = "none"
    /\ merges = 0
    /\ filesAtCancel = {}
    /\ cancelInFlight = FALSE

\* no stage-2 body and no schedule are under examination
AuthInit == abody = <<>> /\ ares = AuthIdle

NowInit == nsched = <<>> /\ nclock = [now0 |-> 0, tickAt |-> 0] /\ nres = NowIdle

\* no Save and no request to the server are under way
EmptyDir == [dir |-> FALSE, m4a |-> "absent", xml |-> "absent"]

NoObs == [m4a |-> FALSE, xml |-> FALSE, res |-> "none"]

SaveIdle ==
    /\ svpc = "idle"
    /\ pdir = EmptyDir
    /\ srcFile = TRUE
    /\ cpc = "idle"
    /\ cobs = NoObs
    /\ hpc = "idle"
    /\ hobs = NoObs

Init == SessInit /\ AuthInit /\ NowInit /\ SaveIdle

\* what the cancellation found, kept for the claims about it
ghost == <<filesAtCancel, cancelInFlight>>

supVars == <<spc, retry, c, timer, results, runRet, runExit, Result, runErr, merges>>

\* the context is cancelled by the caller (signal handler or deadline)
Cancel ==
    /\ ~crashed
    /\ ~ctxCancelled
    /\ spc # "done"
    /\ ctxCancelled' = TRUE
    /\ filesAtCancel' = files
    /\ cancelInFlight' = (\E w \in Workers : InFlight(w))
    /\ UNCHANGED <<supVars, wk, started, files, crashed, authVars, nowVars, saveVars>>

\* run: c <- struct{}{} after the channels and the closure are set up
RunInit ==
    /\ ~crashed
    /\ spc = "init"
    /\ c' = 1
    /\ spc' = "loop"
    /\ UNCHANGED <<retry, timer, results, ctxCancelled, wk, started, files, crashed,
                   runRet, runExit, Result, runErr, merges, ghost, authVars, nowVars, saveVars>>

\* what is left in c after the supervisor received from it
TakeToken_Kept(n) == n

TakeToken(n) == n - 1

\* case <-c: start a record worker
SupStart ==
    /\ ~crashed
    /\ spc = "loop"
    /\ c > 0
    /\ started < MaxWorkers
    /\ c' = TakeToken(c)
    /\ started' = started + 1
    /\ Set(started, [IdleWorker EXCEPT !.pc = "begin", !.afterCancel = ctxCancelled])
    /\ UNCHANGED <<spc, retry, timer, results, ctxCancelled, files, crashed,
                   runRet, runExit, Result, runErr, merges, ghost, authVars, nowVars, saveVars>>

\* case <-ctx.Done(): go and wait for the worker's completion, 10 seconds at most
SupCancel ==
    /\ ~crashed
    /\ spc = "loop"
    /\ ctxCancelled
    /\ spc' = "drain"
    /\ UNCHANGED <<retry, c, timer, results, ctxCancelled, wk, started, files, crashed,
                   runRet, runExit, Result, runErr, merges, ghost, authVars, nowVars, saveVars>>

\* if retry < 5
RetryAllowed_Le(n) == n <= MaxRetry

RetryAllowed(n) == n < MaxRetry

\* case err := <-errChan in the loop: the rendezvous with worker w's send
SupRecv(w) ==
    /\ ~crashed
    /\ spc = "loop"
    /\ wk[w].pc = "send"
    /\ Set(w, Received(wk[w]))
    /\ IF wk[w].err = "nil"
       THEN /\ spc' = "returned"
            /\ runRet' = results
            /\ runExit' = "success"
            /\ UNCHANGED <<retry, timer>>
       ELSE IF RetryAllowed(retry)
       THEN /\ timer' = timer + 1
            /\ retry' = retry + 1
            /\ UNCHANGED <<spc, runRet, runExit>>
       ELSE /\ spc' = "returned"
            /\ runRet' = results
            /\ runExit' = "exhausted"
            /\ UNCHANGED <<retry, timer>>
    /\ UNCHANGED <<c, results, ctxCancelled, started, files, crashed,
                   Result, runErr, merges, ghost, authVars, nowVars, saveVars>>

\* the AfterFunc timer fires: c <- struct{}{} (blocks while c is full)
TimerFire ==
    /\ ~crashed
    /\ timer > 0
    /\ c = 0
    /\ c' = 1
    /\ timer' = timer - 1
    /\ UNCHANGED <<spc, retry, results, ctxCancelled, wk, started, files, crashed,
                   runRet, runExit, Result, runErr, merges, ghost, authVars, nowVars, saveVars>>

\* the inner select: case err := <-errChan
SupDrainRecv(w) ==
    /\ ~crashed
    /\ spc = "drain"
    /\ wk[w].pc = "send"
    /\ Set(w, Received(wk[w]))
    /\ spc' = "returned"
    /\ runRet' = results
    /\ runExit' = "cancelled"
    /\ UNCHANGED <<retry, c, timer, results, ctxCancelled, started, files, crashed,
                   Result, runErr, merges, ghost, authVars, nowVars, saveVars>>

\* the inner select: case <-time.After(time.Second * 10)
SupDrainTimeout ==
    /\ ~crashed
    /\ spc = "drain"
    /\ spc' = "returned"
    /\ runRet' = results
    /\ runExit' = "timeout"
    /\ UNCHANGED <<retry, c, timer, results, ctxCancelled, wk, started, files, crashed,
                   Result, runErr, merges, ghost, authVars, nowVars, saveVars>>


\* the result of ConcatOutput: the merged file with the first result's metadata
ConcatResult(rs) ==
    [path |-> ConcatPath, station |-> rs[1].station, prog |-> rs[1].prog]

\* Run's switch on len(results): the default case merges
NeedsMerge_FromOne(n) == n >= 1

NeedsMerge(n) == n > 1

\* Run, case 1: r.Result = results[0]
SingleResult_Concat(rs) == ConcatResult(rs)

SingleResult(rs) == rs[1]

\* Run after run returned: the switch, with ConcatOutput in the default case
RunSwitch ==
    /\ ~crashed
    /\ spc = "returned"
    /\ spc' = "done"
    /\ IF Len(runRet) = 0
       THEN /\ runErr' = "empty outputs"
            /\ UNCHANGED <<Result, merges, files>>
       ELSE IF ~NeedsMerge(Len(runRet))
       THEN /\ Result' = <<SingleResult(runRet)>>
            /\ runErr' = "nil"
            /\ UNCHANGED <<merges, files>>
       ELSE /\ merges' = merges + 1
            /\ \E ok \in BOOLEAN :
                 IF ok
                 THEN /\ Result' = <<ConcatResult(runRet)>>
                      /\ runErr' = "nil"
                      /\ files' = files \cup {ConcatPath}
                 ELSE /\ runErr' = "concat"
                      /\ UNCHANGED <<Result, files>>
    /\ UNCHANGED <<retry, c, timer, results, ctxCancelled, wk, started, crashed,
                   runRet, runExit, ghost, authVars, nowVars, saveVars>>

(***************************************************************************)
(* A record worker: go func() { errChan <- record() }()                    *)
(***************************************************************************)
wkOnly == <<supVars, ctxCancelled, started, files, crashed, ghost,
            authVars, nowVars, saveVars>>

\* the closure reads retry for the output path; record calls auth, which
\* creates its first temp file and starts the player download (httpDo)
WBegin(w) ==
    /\ ~crashed
    /\ wk[w].pc = "begin"
    /\ \E ok \in BOOLEAN :
         LET r == [wk[w] EXCEPT !.out = OutputPath(retry)]
         IN  IF ok THEN Set(w, [r EXCEPT !.pc = "swf", !.http = "pending",
                                             !.tmp = {TmpSwf}])
             ELSE FailWith(w, r)
    /\ UNCHANGED wkOnly

\* httpDo's goroutine: f(http.DefaultClient.Do(req)) ends with nil or an error.
\* After the select took ctx.Done(), httpDo's "err := <-errChan" gets it and
\* httpDo returns an error whatever the outcome.
HttpRespond(w) ==
    /\ ~crashed
    /\ wk[w].pc \in {"swf", "auth1", "today"}
    /\ wk[w].http \in {"pending", "cancelled"}
    /\ \E ok \in BOOLEAN :
         LET r == IF ok /\ wk[w].pc = "auth1" THEN [wk[w] EXCEPT !.tok = w + 1]
                  ELSE wk[w]
         IN  IF wk[w].http = "cancelled" THEN FailWith(w, r)
             ELSE Set(w, [r EXCEPT !.http = IF ok THEN "ok" ELSE "err"])
    /\ UNCHANGED wkOnly

\* the same for the stage-2 request, whose handler parses the body
Auth2Respond(w) ==
    /\ ~crashed
    /\ wk[w].pc = "auth2"
    /\ wk[w].http \in {"pending", "cancelled"}
    /\ \/ /\ IF wk[w].http = "cancelled" THEN Fail(w)
             ELSE Set(w, [wk[w] EXCEPT !.http = "err"])
          /\ UNCHANGED crashed
       \/ \E body \in SessBodies :
            LET h == Auth2Handler(body)
            IN  IF h.kind = "panic"
                THEN crashed' = TRUE /\ UNCHANGED wk
                ELSE /\ UNCHANGED crashed
                     /\ LET r == [wk[w] EXCEPT !.area = h.area]
                        IN  IF wk[w].http = "cancelled" THEN FailWith(w, r)
                            ELSE Set(w, [r EXCEPT !.http =
                                           IF h.kind = "ok" THEN "ok" ELSE "err"])
    /\ UNCHANGED <<supVars, ctxCancelled, started, files, ghost, authVars, nowVars, saveVars>>

\* httpDo's select: case err := <-errChan
HttpRecv(w) ==
    /\ ~crashed
    /\ wk[w].pc \in HttpStages
    /\ wk[w].http \in {"ok", "err"}
    /\ IF wk[w].http = "err" THEN Fail(w)
       ELSE Set(w, CASE wk[w].pc = "swf" ->
                          [wk[w] EXCEPT !.pc = "extract", !.http = "none"]
                     [] wk[w].pc = "auth1" ->
                          [wk[w] EXCEPT !.pc = "auth2", !.http = "pending"]
                     [] wk[w].pc = "auth2" ->
                          [wk[w] EXCEPT !.pc = "today", !.http = "pending",
                                        !.tmp = AuthCleanup(@),
                                        !.lkArea = wk[w].area]
                     [] OTHER ->
                          [wk[w] EXCEPT !.pc = "lookup", !.http = "none"])
    /\ UNCHANGED wkOnly

\* httpDo's select: case <-ctx.Done(): CancelRequest, then err := <-errChan
HttpDone(w) ==
    /\ ~crashed
    /\ ctxCancelled
    /\ wk[w].pc \in HttpStages
    /\ wk[w].http \in {"pending", "ok", "err"}
    /\ IF wk[w].http = "pending"
       THEN Set(w, [wk[w] EXCEPT !.http = "cancelled"])
       ELSE Fail(w)
    /\ UNCHANGED wkOnly

\* auth between the player download and the stage-1 request: LookPath, the
\* second temp file, swfextract
WExtract(w) ==
    /\ ~crashed
    /\ wk[w].pc = "extract"
    /\ \E created, ok \in BOOLEAN :
         LET r == IF created THEN [wk[w] EXCEPT !.tmp = @ \cup {TmpPng}] ELSE wk[w]
         IN  IF created /\ ok
             THEN Set(w, [r EXCEPT !.pc = "auth1", !.http = "pending"])
             ELSE FailWith(w, r)
    /\ UNCHANGED wkOnly

\* record goes on to the capture only when nowProgram returned no error
LookupFound_Any(r) == TRUE

LookupFound(r) == r.kind = "found"

\* nowProgram's scan of the schedule todayPrograms returned; record returns
\* (nil, err) with errors.New("not found program") or the parse error
WLookup(w) ==
    /\ ~crashed
    /\ wk[w].pc = "lookup"
    /\ \E sched \in SessSchedules, clk \in SessClocks :
         LET r == nowProgram(sched, StationId, clk)
         IN  IF LookupFound(r)
             THEN Set(w, [wk[w] EXCEPT !.pc = "dlsetup", !.prog = r.prog])
             ELSE IF r.kind = "notfound"
             THEN Set(w, Returned(wk[w], "send", <<>>, "notfound"))
             ELSE Fail(w)
    /\ UNCHANGED wkOnly


(***************************************************************************)
(* Radiko.download: the capture process (rtmpdump) piped into the decode   *)
(* process (the converter), run by a goroutine; the caller selects on the  *)
(* context and the goroutine's error.                                      *)
(***************************************************************************)
Sending(w) == wk[w].g \in {"sendNil", "sendErr"}

\* LookPath("rtmpdump"), the rtmpdump command with "-C", "S:"+authtoken,
\* newConverterCmd, StdoutPipe, then the goroutine starts
WDlSetup(w) ==
    /\ ~crashed
    /\ wk[w].pc = "dlsetup"
    /\ \E ok \in BOOLEAN :
         IF ok THEN Set(w, [wk[w] EXCEPT !.pc = "dl", !.g = "convStart",
                                         !.dlTok = wk[w].tok])
         ELSE Set(w, [wk[w] EXCEPT !.pc = "stat", !.derr = "err"])
    /\ UNCHANGED wkOnly

\* converterCmd.Start()
GConvStart(w) ==
    /\ ~crashed
    /\ wk[w].g = "convStart"
    /\ \E ok \in BOOLEAN :
         IF ok THEN Set(w, [wk[w] EXCEPT !.g = "rtmpStart", !.conv = "running"])
         ELSE Set(w, [wk[w] EXCEPT !.g = "sendErr"])
    /\ UNCHANGED wkOnly

\* rtmpdumpCmd.Run(): the start, which sets rtmpdumpCmd.Process
GRtmpStart(w) ==
    /\ ~crashed
    /\ wk[w].g = "rtmpStart"
    /\ \E ok \in BOOLEAN :
         IF ok THEN Set(w, [wk[w] EXCEPT !.g = "rtmpWait", !.rtmp = "running"])
         ELSE Set(w, [wk[w] EXCEPT !.g = "sendErr"])
    /\ UNCHANGED wkOnly

\* rtmpdumpCmd.Run(): the wait; the process exits by itself, with status 0 or
\* not, or was killed. An error skips converterCmd.Wait().
GRtmpWait(w) ==
    /\ ~crashed
    /\ wk[w].g = "rtmpWait"
    /\ IF wk[w].rtmp = "running"
       THEN \E ok \in BOOLEAN :
              Set(w, [wk[w] EXCEPT !.rtmp = "exited",
                        !.g = IF ok THEN "convWait" ELSE "sendErr"])
       ELSE Set(w, [wk[w] EXCEPT !.g = "sendErr"])
    /\ UNCHANGED wkOnly

\* the converter creates its output file while it runs
ConvCreate(w) ==
    /\ ~crashed
    /\ wk[w].conv = "running"
    /\ wk[w].out \notin files
    /\ files' = files \cup {wk[w].out}
    /\ UNCHANGED <<supVars, ctxCancelled, wk, started, crashed, ghost, authVars, nowVars, saveVars>>

\* the converter exits
ConvExit(w) ==
    /\ ~crashed
    /\ wk[w].conv = "running"
    /\ Set(w, [wk[w] EXCEPT !.conv = "exited"])
    /\ UNCHANGED wkOnly

\* converterCmd.Wait() returns once the converter exited, with its status
GConvWait(w) ==
    /\ ~crashed
    /\ wk[w].g = "convWait"
    /\ wk[w].conv = "exited"
    /\ \E ok \in BOOLEAN :
         Set(w, [wk[w] EXCEPT !.g = IF ok THEN "sendNil" ELSE "sendErr"])
    /\ UNCHANGED wkOnly

\* download's select: case err := <-errChan
DlRecv(w) ==
    /\ ~crashed
    /\ wk[w].pc = "dl"
    /\ Sending(w)
    /\ Set(w, [wk[w] EXCEPT !.pc = "stat", !.g = "done",
                 !.derr = IF wk[w].g = "sendNil" THEN "nil" ELSE "err"])
    /\ UNCHANGED wkOnly

\* download's select: case <-ctx.Done(): rtmpdumpCmd.Process.Kill(), a nil
\* pointer dereference while the process was not started
DlDone(w) ==
    /\ ~crashed
    /\ ctxCancelled
    /\ wk[w].pc = "dl"
    /\ IF wk[w].rtmp = "none"
       THEN crashed' = TRUE /\ UNCHANGED wk
       ELSE /\ UNCHANGED crashed
            /\ Set(w, [wk[w] EXCEPT !.pc = "dlkill",
                         !.rtmp = IF @ = "running" THEN "killed" ELSE @])
    /\ UNCHANGED <<supVars, ctxCancelled, started, files, ghost, authVars, nowVars, saveVars>>

\* after the kill: err := <-errChan, with no bound on the wait; a nil err
\* becomes ctx.Err() ("ctx")
DlKillRecv(w) ==
    /\ ~crashed
    /\ wk[w].pc = "dlkill"
    /\ Sending(w)
    /\ Set(w, [wk[w] EXCEPT !.pc = "stat", !.g = "done",
                 !.derr = IF wk[w].g = "sendNil" THEN "ctx" ELSE "err"])
    /\ UNCHANGED wkOnly

\* record after download: os.Stat(output) decides between (nil, err) and
\* (ret, err); the closure appends a non-nil ret
WStat(w) ==
    /\ ~crashed
    /\ wk[w].pc = "stat"
    /\ IF wk[w].out \in files
       THEN Set(w, Returned(wk[w], "append",
                            <<MkResult(wk[w].out, StationId, wk[w].prog)>>,
                            wk[w].derr))
       ELSE Set(w, Returned(wk[w], "send", <<>>, wk[w].derr))
    /\ UNCHANGED wkOnly

\* the closure: results = append(results, ret)
WAppend(w) ==
    /\ ~crashed
    /\ wk[w].pc = "append"
    /\ results' = Append(results, wk[w].ret[1])
    /\ Set(w, [wk[w] EXCEPT !.pc = "send"])
    /\ UNCHANGED <<spc, retry, c, timer, ctxCancelled, started, files, crashed,
                   runRet, runExit, Result, runErr, merges, ghost, authVars, nowVars, saveVars>>

Next ==
    \/ Cancel
    \/ RunInit
    \/ SupStart
    \/ SupCancel
    \/ TimerFire
    \/ SupDrainTimeout
    \/ RunSwitch
    \/ \E w \in Workers : SupRecv(w)
    \/ \E w \in Workers : SupDrainRecv(w)
    \/ \E w \in Workers : WBegin(w)
    \/ \E w \in Workers : HttpRespond(w)
    \/ \E w \in Workers : Auth2Respond(w)
    \/ \E w \in Workers : HttpRecv(w)
    \/ \E w \in Workers : HttpDone(w)
    \/ \E w \in Workers : WExtract(w)
    \/ \E w \in Workers : WLookup(w)
    \/ \E w \in Workers : WDlSetup(w)
    \/ \E w \in Workers : GConvStart(w)
    \/ \E w \in Workers : GRtmpStart(w)
    \/ \E w \in Workers : GRtmpWait(w)
    \/ \E w \in Workers : ConvCreate(w)
    \/ \E w \in Workers : ConvExit(w)
    \/ \E w \in Workers : GConvWait(w)
    \/ \E w \in Workers : DlRecv(w)
    \/ \E w \in Workers : DlDone(w)
    \/ \E w \in Workers : DlKillRecv(w)
    \/ \E w \in Workers : WStat(w)
    \/ \E w \in Workers : WAppend(w)

Spec == Init /\ [][Next]_vars

(***************************************************************************)
(* The stage-2 handler on every body, and nowProgram on every schedule.    *)
(***************************************************************************)
InitAuth == SessInit /\ NowInit /\ SaveIdle /\ abody \in Bodies /\ ares = AuthIdle

\* the handler of the auth2_fms response runs on the body
AuthCall ==
    /\ ares.kind = "idle"
    /\ ares' = Auth2Handler(abody)
    /\ UNCHANGED <<abody, sessVars, nowVars, saveVars>>

NextAuth == AuthCall

SpecAuth == InitAuth /\ [][NextAuth]_vars

InitNow ==
    /\ SessInit
    /\ AuthInit
    /\ SaveIdle
    /\ nsched \in Schedules
    /\ nclock \in Clocks
    /\ nres = NowIdle

\* nowProgram runs on the schedule for r.Station
NowCall ==
    /\ nres.kind = "idle"
    /\ nres' = nowProgram(nsched, StationId, nclock)
    /\ UNCHANGED <<nsched, nclock, sessVars, authVars, saveVars>>

NextNow == NowCall

SpecNow == InitNow /\ [][NextNow]_vars

(***************************************************************************)
(* RadikoResult.Save into the program directory <Ft>_<Station>, with the   *)
(* podcast server's itemByDir reading the same directory.                  *)
(* A file is "absent", "partial" (created, not fully written) or "full".   *)
(***************************************************************************)
\* the directory an earlier Save of the same program and station completed
FullDir == [dir |-> TRUE, m4a |-> "full", xml |-> "full"]

InitSave ==
    /\ SessInit
    /\ AuthInit
    /\ NowInit
    /\ svpc = "mkdir"
    /\ pdir \in {EmptyDir, FullDir}
    /\ srcFile = TRUE
    /\ cpc = "idle"
    /\ cobs = NoObs
    /\ hpc = "idle"
    /\ hobs = NoObs

saveOnly == <<sessVars, authVars, nowVars, cpc, cobs, hpc, hobs>>

\* os.MkdirAll(programDir, 0777)
SaveMkdir ==
    /\ svpc = "mkdir"
    /\ \E ok \in BOOLEAN :
         IF ok THEN svpc' = "move" /\ pdir' = [pdir EXCEPT !.dir = TRUE]
         ELSE svpc' = "failed" /\ UNCHANGED pdir
    /\ UNCHANGED <<srcFile, saveOnly>>

\* RenameOrCopy(r.Mp3Path, m4aPath), the rename: the file moves in one step
SaveRename ==
    /\ svpc = "move"
    /\ srcFile
    /\ svpc' = "create"
    /\ pdir' = [pdir EXCEPT !.m4a = "full"]
    /\ srcFile' = FALSE
    /\ UNCHANGED saveOnly

\* RenameOrCopy, when the rename is not possible: the copy creates (truncates)
\* the destination, or RenameOrCopy fails at once
SaveCopyBegin ==
    /\ svpc = "move"
    /\ \E ok \in BOOLEAN :
         IF ok THEN svpc' = "copying" /\ pdir' = [pdir EXCEPT !.m4a = "partial"]
         ELSE svpc' = "failed" /\ UNCHANGED pdir
    /\ UNCHANGED <<srcFile, saveOnly>>

\* the copy ends, or fails part-way
SaveCopyEnd ==
    /\ svpc = "copying"
    /\ \E ok \in BOOLEAN :
         IF ok THEN svpc' = "create" /\ pdir' = [pdir EXCEPT !.m4a = "full"]
         ELSE svpc' = "failed" /\ UNCHANGED pdir
    /\ UNCHANGED <<srcFile, saveOnly>>

\* os.Create(xmlPath): the file exists, empty, once created
SaveCreate ==
    /\ svpc = "create"
    /\ \E ok \in BOOLEAN :
         IF ok THEN svpc' = "encode" /\ pdir' = [pdir EXCEPT !.xml = "partial"]
         ELSE svpc' = "failed" /\ UNCHANGED pdir
    /\ UNCHANGED <<srcFile, saveOnly>>

\* enc.Encode(r.Prog), then return nil
SaveEncode ==
    /\ svpc = "encode"
    /\ \E ok \in BOOLEAN :
         IF ok THEN svpc' = "done" /\ pdir' = [pdir EXCEPT !.xml = "full"]
         ELSE svpc' = "failed" /\ UNCHANGED pdir
    /\ UNCHANGED <<srcFile, saveOnly>>

consOnly == <<sessVars, authVars, nowVars, svpc, pdir, srcFile, hpc, hobs>>

\* rss lists the directory; itemByDir: s.m4aPath(dir), an os.Stat
ConsStatM4a ==
    /\ cpc = "idle"
    /\ pdir.dir
    /\ IF pdir.m4a # "absent"
       THEN cpc' = "statXml" /\ cobs' = [NoObs EXCEPT !.m4a = TRUE]
       ELSE cpc' = "done" /\ cobs' = [NoObs EXCEPT !.res = "err"]
    /\ UNCHANGED consOnly

\* itemByDir: s.xmlPath(dir), an os.Stat
ConsStatXml ==
    /\ cpc = "statXml"
    /\ IF pdir.xml # "absent"
       THEN cpc' = "decode" /\ cobs' = [cobs EXCEPT !.xml = TRUE]
       ELSE cpc' = "done" /\ cobs' = [cobs EXCEPT !.res = "err"]
    /\ UNCHANGED consOnly

\* itemByDir: os.Open(xmlPath) and dec.Decode(&prog), then the item
ConsDecode ==
    /\ cpc = "decode"
    /\ cpc' = "done"
    /\ cobs' = [cobs EXCEPT !.res = IF pdir.xml = "full" THEN "item" ELSE "err"]
    /\ UNCHANGED consOnly

\* the next request for the feed
ConsNext ==
    /\ cpc = "done"
    /\ cpc' = "idle"
    /\ cobs' = NoObs
    /\ UNCHANGED consOnly

handOnly == <<sessVars, authVars, nowVars, svpc, pdir, srcFile, cpc, cobs>>

\* the /podcast/{program}.m4a handler: s.m4aPath(dir) and os.Stat(m4aPath)
HandStatM4a ==
    /\ hpc = "idle"
    /\ IF pdir.m4a # "absent"
       THEN hpc' = "statXml" /\ hobs' = [NoObs EXCEPT !.m4a = TRUE]
       ELSE hpc' = "done" /\ hobs' = [NoObs EXCEPT !.res = "notfound"]
    /\ UNCHANGED handOnly

\* the handler: s.xmlPath(dir) and os.Stat(xmlPath)
HandStatXml ==
    /\ hpc = "statXml"
    /\ IF pdir.xml # "absent"
       THEN hpc' = "serve" /\ hobs' = [hobs EXCEPT !.xml = TRUE]
       ELSE hpc' = "done" /\ hobs' = [hobs EXCEPT !.res = "notfound"]
    /\ UNCHANGED handOnly

\* the handler: os.Open(m4aPath) and http.ServeContent
HandServe ==
    /\ hpc = "serve"
    /\ hpc' = "done"
    /\ hobs' = [hobs EXCEPT !.res = "served"]
    /\ UNCHANGED handOnly

\* the next request for the audio
HandNext ==
    /\ hpc = "done"
    /\ hpc' = "idle"
    /\ hobs' = NoObs
    /\ UNCHANGED handOnly

NextSave ==
    \/ SaveMkdir
    \/ SaveRename
    \/ SaveCopyBegin
    \/ SaveCopyEnd
    \/ SaveCreate
    \/ SaveEncode
    \/ ConsStatM4a
    \/ ConsStatXml
    \/ ConsDecode
    \/ ConsNext
    \/ HandStatM4a
    \/ HandStatXml
    \/ HandServe
    \/ HandNext

SpecSave == InitSave /\ [][NextSave]_vars


(***************************************************************************)
(* Properties of the session (checked under Spec).                         *)
(***************************************************************************)
Returned_run == spc \in {"returned", "done"}

\* every attempt started so far came back with a non-nil error
AllAttemptsFailed == \A w \in Workers : w < started => wk[w].err = "err"

\* C1: a session never starts more than 6 attempts (the first and 5 retries),
\* and when every attempt returned a non-nil error and the context was not
\* cancelled, run returns only after exactly 6 attempts, as exhausted.
C1_RetryCeiling ==
    /\ started <= MaxRetry + 1
    /\ (Returned_run /\ ~ctxCancelled /\ AllAttemptsFailed)
          => (started = MaxRetry + 1 /\ runExit = "exhausted")

C1_Witness ==
    /\ spc = "done"
    /\ ~ctxCancelled
    /\ AllAttemptsFailed
    /\ started = MaxRetry + 1
    /\ runExit = "exhausted"

\* C2, as claimed: Run merges exactly once when the session made more than one
\* attempt and never when it made exactly one.
C2_MergeIffSeveralAttempts ==
    spc = "done" =>
        /\ started > 1 => merges = 1
        /\ started = 1 => merges = 0

\* C2, amended: Run merges exactly once when run returned more than one result
\* and never otherwise, however many attempts were made.
C2_MergeIffSeveralResults ==
    /\ merges <= 1
    /\ spc # "done" => merges = 0
    /\ spc = "done" => (merges = 1 <=> Len(runRet) > 1)

C2_Witness ==
    /\ spc = "done"
    /\ started = 3
    /\ Len(runRet) = 2
    /\ merges = 1

\* C3: when the session made one attempt, which returned a result and no
\* error, Run merges nothing, returns no error, and r.Result is that attempt's
\* result: its output path radiko_0.m4a, the session's station, its program.
C3_SingleAttemptIdentity ==
    (spc = "done" /\ started = 1 /\ runExit = "success" /\ wk[0].ret # <<>>) =>
        /\ merges = 0
        /\ runErr = "nil"
        /\ Result = wk[0].ret
        /\ Result[1].path = OutputPath(0)
        /\ Result[1].station = StationId
        /\ Result[1].prog \in ProgSet

C3_Witness ==
    /\ spc = "done"
    /\ started = 1
    /\ runExit = "success"
    /\ wk[0].ret # <<>>
    /\ Result = wk[0].ret
    /\ merges = 0

\* the worker whose output a result holds
WorkerOf(res) == res.path.n

\* C4, as claimed: when the context was cancelled while an attempt was in
\* flight, every result run returns is of an attempt whose output file existed
\* before the cancellation, and none is of an attempt started after it.
C4_OnlyFilesBeforeCancel ==
    (Returned_run /\ cancelInFlight) =>
        \A i \in 1 .. Len(runRet) :
            /\ runRet[i].path \in filesAtCancel
            /\ ~wk[WorkerOf(runRet[i])].afterCancel

\* the worker's record has returned a result (the closure appends it next, or
\* has appended it)
Completed(w) == wk[w].pc \in {"append", "send", "done"} /\ wk[w].ret # <<>>

InSeq(x, sq) == \E i \in 1 .. Len(sq) : sq[i] = x

\* C5, as claimed: run leaves the cancellation branch only with the worker's
\* completion signal or by the 10-second timeout, and every attempt that has
\* completed with an output file when run returns is in the returned results.
C5_NoCompletedResultDropped ==
    [][(spc = "drain" /\ spc' = "returned") =>
          /\ runExit' \in {"cancelled", "timeout"}
          /\ \A w \in Workers : Completed(w) => InSeq(wk[w].ret[1], runRet')]_vars

\* the results of the workers whose record returned one, in start order
RECURSIVE Gathered(_)
Gathered(n) ==
    IF n = 0 THEN <<>>
    ELSE Gathered(n - 1) \o (IF Completed(n - 1) THEN wk[n - 1].ret ELSE <<>>)

\* C8, as claimed: at every return of run (success, exhausted, cancelled) the
\* result list is the outputs of all attempts that produced one so far, in
\* capture order, and Run returns "empty outputs" exactly when it is empty.
C8_TerminalResults ==
    [][/\ (spc \in {"loop", "drain"} /\ spc' = "returned")
            => runRet' = Gathered(MaxWorkers)
       /\ (spc = "returned" /\ spc' = "done")
            => (runErr' = "empty outputs" <=> Len(runRet) = 0)]_vars

\* C9: a worker is started only once every earlier worker's completion was
\* received, so at most one record worker is in flight.
C9_SequentialAttempts ==
    /\ \A v, w \in Workers : (v < w /\ wk[w].pc # "idle") => wk[v].pc = "done"
    /\ Cardinality({w \in Workers : InFlight(w)}) <= 1

C9_Witness ==
    /\ wk[0].pc = "done"
    /\ wk[1].pc = "done"
    /\ wk[2].pc = "dl"
    /\ wk[2].rtmp = "running"

\* C10, as claimed: no worker writes the results list once the supervisor has
\* returned it (results reach the supervisor through the channel only).
C10_NoSharedResults ==
    Returned_run => \A w \in Workers : wk[w].pc # "append"

\* C11, as claimed: when the supervisor receives the "not found program"
\* failure of an attempt's lookup, it schedules no retry (no timer is set, the
\* retry counter is left alone) and run returns.
C11_NoRetryOnNotFound ==
    [][\A w \in Workers :
          (wk[w].pc = "send" /\ wk[w].err = "notfound" /\ wk'[w].pc = "done")
             => (timer' = timer /\ retry' = retry /\ spc' = "returned")]_vars

\* C12, as claimed: when record returns after download, an attempt whose output
\* file is not on disk returns no result and a non-nil error whatever download
\* reported, and an attempt whose file is on disk returns a result together
\* with download's error.
C12_MissingFileIsFailure ==
    [][\A w \in Workers :
          (wk[w].pc = "stat" /\ wk'[w].pc # "stat") =>
             IF wk[w].out \in files
             THEN wk'[w].ret # <<>> /\ wk'[w].err = wk[w].derr
             ELSE wk'[w].ret = <<>> /\ wk'[w].err # "nil"]_vars

\* C13, as claimed: when download took the cancellation branch and killed the
\* capture process, it returns the outcome the goroutine's completion signal
\* carries (nil for nil), not the context's cancellation error.
C13_KillReturnsTrueOutcome ==
    [][\A w \in Workers :
          (wk[w].pc = "dlkill" /\ wk'[w].pc = "stat") =>
             wk'[w].derr = (IF wk[w].g = "sendNil" THEN "nil" ELSE "err")]_vars

\* the worker is inside its call of auth
InAuth(w) == wk[w].pc \in {"swf", "extract", "auth1", "auth2"}

\* the call of auth is over: it returned, or the process died inside it
AuthOver(w) == (wk[w].pc # "begin" /\ ~InAuth(w)) \/ (InAuth(w) /\ crashed)

\* C14, as claimed: on every exit path of auth (success, HTTP, extraction or
\* protocol error, cancellation) none of the temp files the call created is
\* left once the call is over, and the httpDo handlers and swfextract, which
\* write and read the temp files, run only inside the call, on existing files.
C14_AuthTempFilesRemoved ==
    \A w \in Workers :
        /\ AuthOver(w) => wk[w].tmp = {}
        /\ (wk[w].http \in {"pending", "cancelled"} /\ wk[w].pc # "today")
              => InAuth(w)
        /\ (wk[w].pc \in {"swf", "extract"}) => TmpSwf \in wk[w].tmp
        /\ (wk[w].pc \in {"auth1", "auth2"}) => wk[w].tmp = {TmpSwf, TmpPng}

\* C16, as claimed: once the context is cancelled the supervisor starts no
\* attempt, neither the first one nor a retry whose timer has fired.
C16_NoStartAfterCancel ==
    [][ctxCancelled => started' = started]_vars

\* C18, as claimed: download's cancellation branch kills the capture process
\* only once it was started; Kill is never applied to a nil Process (which
\* ends the program).
C18_KillOnlyStarted ==
    [][\A w \in Workers :
          (wk[w].pc = "dl" /\ (wk'[w].pc = "dlkill" \/ (~crashed /\ crashed')))
             => wk[w].rtmp # "none"]_vars

\* C19, as claimed: no worker is left at its send on errChan once run has
\* returned (nothing receives from errChan any more), and a backoff timer never
\* finds the retry channel full.
C19_NoStrandedWorker ==
    /\ Returned_run => \A w \in Workers : wk[w].pc # "send"
    /\ ~(timer > 0 /\ c > 0)
    /\ timer <= 1

\* C20, as claimed: when download has returned and record stats the output
\* file, a decode process that was started has exited.
C20_DecoderExitedAtStat ==
    \A w \in Workers : wk[w].pc = "stat" => wk[w].conv # "running"

\* the worker's record is at or past the call of download
InCapture(w) == wk[w].pc \in {"dlsetup", "dl", "dlkill", "stat"}

\* C17: every attempt authenticates, then looks the program up, then captures:
\* inside auth no program is looked up and no process exists; the lookup uses
\* the region this attempt's auth returned and happens with this attempt's
\* token at hand; the capture exists only after this attempt's auth and lookup
\* both succeeded, and runs with this attempt's token and program, never an
\* earlier attempt's.
C17_HandshakeOrder ==
    \A w \in Workers :
        /\ (wk[w].pc = "begin" \/ InAuth(w)) =>
              (wk[w].prog = NoProg /\ wk[w].g = "none" /\ wk[w].lkArea = <<>>
                  /\ wk[w].rtmp = "none" /\ wk[w].conv = "none")
        /\ wk[w].pc \in {"today", "lookup"} =>
              (wk[w].tok = w + 1 /\ wk[w].area # <<>> /\ wk[w].lkArea = wk[w].area
                  /\ wk[w].prog = NoProg /\ wk[w].g = "none")
        /\ (InCapture(w) \/ wk[w].g # "none") =>
              (wk[w].tok = w + 1 /\ wk[w].lkArea = wk[w].area /\ wk[w].area # <<>>
                  /\ wk[w].prog \in ProgSet
                  /\ ParseOk(wk[w].prog.ft) /\ ParseOk(wk[w].prog.to))
        /\ wk[w].g # "none" => wk[w].dlTok = w + 1

\* the third attempt captures, after two attempts that failed
C17_Witness ==
    /\ wk[0].pc = "done"
    /\ wk[1].pc = "done"
    /\ wk[2].pc = "dl"
    /\ wk[2].g = "rtmpWait"
    /\ wk[2].dlTok = 3
    /\ wk[2].lkArea = <<"a">>
    /\ wk[2].prog = [ft |-> 0, to |-> 2]

(***************************************************************************)
(* Properties of the stage-2 handler (checked under SpecAuth).             *)
(***************************************************************************)
\* the comma-separated fields of a body
NumFields(body) == Cardinality(CommaPositions(body)) + 1

FirstField(body) ==
    IF CommaPositions(body) = {} THEN body
    ELSE SubSeq(body, 1, (CHOOSE i \in CommaPositions(body) :
                             \A j \in CommaPositions(body) : i <= j) - 1)

\* C6, as claimed: a body of fewer than 3 fields yields "failed to auth", never
\* a region and never a crash; a region is returned only for bodies of at
\* least 3 fields and is the first field.
C6_ShortBodyIsError ==
    ares.kind # "idle" =>
        /\ ares.kind # "panic"
        /\ NumFields(abody) < 3 => ares.kind = "err"
        /\ ares.kind = "ok" => (NumFields(abody) >= 3 /\ ares.area = FirstField(abody))

(***************************************************************************)
(* Properties of nowProgram (checked under SpecNow).                       *)
(***************************************************************************)
\* the programs listed under the named station, in document order
RECURSIVE NamedProgs(_, _)
NamedProgs(sched, station) ==
    IF sched = <<>> THEN <<>>
    ELSE (IF Head(sched).id = station THEN Head(sched).progs ELSE <<>>)
         \o NamedProgs(Tail(sched), station)

WellFormed(progs) ==
    \A i \in 1 .. Len(progs) : progs[i].ft # Bad /\ progs[i].to # Bad

\* C7: for a schedule whose timestamps parse and an instant now (the clock
\* reads now throughout the scan), nowProgram returns P iff P is the first
\* program of the named station with ft <= now < to, and fails with "not found
\* program" iff there is none (unknown station included).
C7_CurrentProgram ==
    LET progs == NamedProgs(nsched, StationId)
        now == nclock.now0
        hits == {i \in 1 .. Len(progs) : progs[i].ft <= now /\ now < progs[i].to}
    IN  (nres.kind # "idle" /\ nclock.tickAt = 0 /\ WellFormed(progs)) =>
            /\ nres.kind \in {"found", "notfound"}
            /\ nres.kind = "notfound" <=> hits = {}
            /\ nres.kind = "found" =>
                 \E i \in hits : /\ \A j \in hits : i <= j
                                 /\ nres.prog = progs[i]

\* now = 2 is the end of the first program (excluded) and the last second of
\* the second one (included)
C7_Witness ==
    /\ nres.kind = "found"
    /\ nclock = [now0 |-> 2, tickAt |-> 0]
    /\ NamedProgs(nsched, StationId) = <<[ft |-> 0, to |-> 2], [ft |-> 1, to |-> 3]>>
    /\ nres.prog = [ft |-> 1, to |-> 3]

(***************************************************************************)
(* Properties of Save (checked under SpecSave).                            *)
(***************************************************************************)
\* C15, as claimed: in every state during or after a Save, failed ones
\* included, the program directory holds both podcast.m4a and podcast.xml or
\* neither, and neither itemByDir nor the audio handler finds podcast.m4a
\* without podcast.xml.
C15_BothFilesOrNeither ==
    /\ (pdir.m4a # "absent") <=> (pdir.xml # "absent")
    /\ ~(cpc = "done" /\ cobs.m4a /\ ~cobs.xml)
    /\ ~(hpc = "done" /\ hobs.m4a /\ ~hobs.xml)


====
